---- MODULE Spec2Model ----
(***************************************************************************)
(* Model of the two LibreNMS "enhanced" checkers:                          *)
(*   scripts/enhanced/dnsChecker.py  (DNS resolution checker)              *)
(*   scripts/enhanced/sslChecker.py  (SSL certificate checker)             *)
(* One behaviour is one run of one of the two scripts.  Every network      *)
(* operation is split into the step that issues it and the step in which   *)
(* it returns, with the outcome chosen by the environment.                 *)
(***************************************************************************)
EXTENDS Integers, Sequences, FiniteSets, TLC

VARIABLES
    script,         \* which program runs: "dns" or "ssl"
    pc,             \* position of main()
    exit_code,      \* process exit status, meaningful once pc = "exit"
    clock,          \* the host's wall clock (datetime.now / time.time), in ticks
    dns_servers,    \* main(): list returned by read_dns_servers
    domains,        \* main(): list returned by read_domains / fetch_domains_from_api
    si,             \* index of the outer loop (for dns_server in dns_servers)
    di,             \* index of the inner loop (for domain in domains)
    result,         \* the dict built by resolve_dns / check_ssl_certificate; None
                    \* between two loop bodies, where the local is dead
    payload,        \* the JSON body of the request in flight to the API
    success_count,  \* main(): success_count
    fail_count,     \* main(): fail_count
    template_made,  \* read_dns_servers wrote the template dns_servers.txt
    probes,         \* history: work item -> number of probe calls made for it
    writes,         \* history: work item -> number of API writes made for it
    summary,        \* the counts printed by the run's summary, None before it
    probe_log,      \* history: what the last probe call did (outcome, times)
    last_resp,      \* history: the API's answer to the write that just returned
    auth_failed,    \* history: the API answered some write with 401 or 403
    setup_error,    \* history: the setup error the run met, "none" without one
    open_conns,     \* TCP connections to targets the process holds open
    in_flight       \* the network requests issued and not yet returned

vars == << script, pc, exit_code, clock, dns_servers, domains, si, di, result,
           payload, success_count, fail_count, template_made, summary, probes, writes,
           probe_log, last_resp, auth_failed, setup_error, open_conns, in_flight >>

----------------------------------------------------------------------------
(* Bounds of the model *)

MaxServers == 2     \* lines of dns_servers.txt
MaxDomains == 2     \* lines of config.txt
MaxTargets == 2     \* records answered by the API to the SSL checker
MaxClock == 4       \* the wall clock stays within 0..MaxClock
DayLen == 2         \* ticks of the clock per day

(* Program constants *)

DefaultPort == 443  \* record.get('port', 443)

----------------------------------------------------------------------------
(* Python values *)

\* The value of a dict's key: None is the empty tuple, a value v is <<v>>.
None == << >>
Some(v) == << v >>

\* Every sequence over S of length at most n.
SeqUpTo(S, n) == UNION { [1..k -> S] : k \in 0..n }

\* f with the key k set to v (d[k] = v)
SetKey(f, k, v) == [x \in DOMAIN f \cup {k} |-> IF x = k THEN v ELSE f[x]]

\* d.get(k, dflt)
Get(f, k, dflt) == IF k \in DOMAIN f THEN f[k] ELSE dflt

\* The history counters of the work items.
Bump(h, item) == SetKey(h, item, Get(h, item, 0) + 1)
Count(h, item) == Get(h, item, 0)

----------------------------------------------------------------------------
(* load_api_config: the states api_config.ini can be in *)

ApiConfigStates == {"missing", "no_api_section", "no_url", "no_token", "ok"}

\* load_api_config returns the {'url', 'token'} dict in the state "ok"; in
\* every other state it prints the error and calls sys.exit(1).

----------------------------------------------------------------------------
(* The API's answers to a request *)

HttpCodes == {200, 401, 403, 500}
BodyStatuses == {"ok", "error", "invalid_json"}

\* requests raises Timeout or ConnectionError, or some other exception, or
\* a response arrives with a status code and a body.
ApiResponses ==
    { [kind |-> k] : k \in {"timeout", "connection_error", "other_exception"} }
    \cup { [kind |-> "http", code |-> c, body |-> "ok"] : c \in HttpCodes }
    \cup { [kind |-> "http", code |-> 200, body |-> b] : b \in BodyStatuses }

NoResponse == [kind |-> "none"]

\* response.raise_for_status() raises HTTPError
RaisesForStatus(resp) == resp.kind = "http" /\ resp.code >= 400 /\ resp.code < 600

IsAuthFailure(resp) ==
    resp.kind = "http" /\ (resp.code = 401 \/ resp.code = 403)

\* A request in flight: the probe of a work item or the write of its result.
ProbeOf(item) == [op |-> "probe", item |-> item]
WriteOf(item) == [op |-> "write", item |-> item]

----------------------------------------------------------------------------
(* dnsChecker.py *)

DnsLoadApiConfigOk(cfg) == cfg = "ok"

\* Lines of dns_servers.txt, already stripped.
ServerLines == {"", "# comment", "8.8.8.8"}

\* Lines of config.txt, already stripped.
DomainLines == {"", "# comment", "example.com", "https://example.com:8443/status"}

\* A registry file: missing, readable to the end, or failing with another
\* exception after `read` of its lines were consumed.
RegistryFiles(Lines, n) ==
    { [state |-> "missing"] }
    \cup { [state |-> "ok", lines |-> l] : l \in SeqUpTo(Lines, n) }
    \cup UNION { { [state |-> "error", lines |-> l, read |-> k] : k \in 0..Len(l) }
                 : l \in SeqUpTo(Lines, n) }

\* The lines the for loop consumed before the function returned.
LinesRead(file) ==
    CASE file.state = "missing" -> << >>
      [] file.state = "ok" -> file.lines
      [] file.state = "error" -> SubSeq(file.lines, 1, file.read)

\* if line and not line.startswith('#')
IsEntryLine(line) == line # "" /\ line # "# comment"

\* read_dns_servers: the list it returns.
ReadDnsServers(file) == SelectSeq(LinesRead(file), IsEntryLine)

\* read_domains: the domain cut out of a line (scheme, path and port removed).
ExtractedDomain(line) ==
    IF line = "https://example.com:8443/status" THEN "example.com" ELSE line

\* read_domains: the list it returns.
ReadDomains(file) ==
    LET kept == SelectSeq(LinesRead(file), IsEntryLine)
    IN  [k \in 1..Len(kept) |-> ExtractedDomain(kept[k])]

\* How resolver.resolve(domain, 'A') ends.
DnsOutcomes == {"answer", "timeout", "nxdomain", "no_answer", "no_nameservers",
                "dns_exception", "unexpected"}

Addresses == {"93.184.216.34"}

\* resolve_dns: the dict built before the try block.
DnsInitResult(now) ==
    [resolved_ip |-> None, resolve_time_ms |-> None, timestamp |-> Some(now),
     error |-> None]

\* resolve_dns: the except clauses.
DnsErrorMessage(outcome) ==
    CASE outcome = "timeout" -> "DNS query timeout after 5 seconds"
      [] outcome = "nxdomain" -> "Domain does not exist (NXDOMAIN)"
      [] outcome = "no_answer" -> "No answer received from DNS server"
      [] outcome = "no_nameservers" -> "No nameservers available"
      [] outcome = "dns_exception" -> "DNS error"
      [] OTHER -> "Unexpected error"

\* Variant: without the final `except Exception` clause.
DnsCaught_NoCatchAll(outcome) == outcome # "unexpected"

\* resolve_dns: TRUE when one of its except clauses catches the outcome's
\* exception (the last clause is `except Exception`).
DnsCaught(outcome) == TRUE

\* Variant: the timestamp is taken again when the query has ended.
ResolveDnsResult_StampsAtEnd(r, outcome, ip, elapsed) ==
    LET t == [r EXCEPT !.timestamp = Some(r.timestamp[1] + elapsed)]
    IN  IF outcome = "answer"
        THEN [t EXCEPT !.resolved_ip = Some(ip), !.resolve_time_ms = Some(elapsed)]
        ELSE [t EXCEPT !.error = Some(DnsErrorMessage(outcome))]

\* resolve_dns: the dict it returns, given the dict r built before the try
\* block, the outcome of the query, the first address answered and the time
\* the query took (end_time - start_time).
ResolveDnsResult(r, outcome, ip, elapsed) ==
    IF outcome = "answer"
    THEN [r EXCEPT !.resolved_ip = Some(ip), !.resolve_time_ms = Some(elapsed)]
    ELSE [r EXCEPT !.error = Some(DnsErrorMessage(outcome))]

\* Variant: the payload is posted as built, None values included.
RemoveNone_KeepsNone(p) == p

\* {k: v for k, v in payload.items() if v is not None}
RemoveNone(p) == [k \in {x \in DOMAIN p : p[x] # None} |-> p[k]]

\* update_dns_lookup_via_api: the JSON body posted.
DnsPayload(domain, dns_server, r) ==
    LET base == [domain |-> Some(domain),
                 dns_server |-> Some(dns_server),
                 resolved_ip |-> Get(r, "resolved_ip", None),
                 resolve_time_ms |-> Get(r, "resolve_time_ms", None),
                 lastChecked |-> Get(r, "timestamp", None)]
        full == IF "error" \in DOMAIN r
                THEN SetKey(base, "error_message", r["error"]) ELSE base
    IN  RemoveNone(full)

\* update_dns_lookup_via_api: TRUE when one of its except clauses catches
\* what the request raised (the last clause is `except Exception`).
UpdateDnsCaught(resp) == TRUE

\* Variant: the 'status' of the body is not looked at.
UpdateDnsReturns_IgnoresBody(resp) ==
    /\ resp.kind = "http"
    /\ ~RaisesForStatus(resp)

\* update_dns_lookup_via_api: the value it returns.
UpdateDnsReturns(resp) ==
    /\ resp.kind = "http"
    /\ ~RaisesForStatus(resp)
    /\ resp.body = "ok"

\* Variant: the inner loop is left after its first domain.
DnsNextItem_LeavesInnerLoop(s, d, nd) == << s + 1, 1 >>

\* main: the work item after (s, d) in the nested for loops over nd domains.
DnsNextItem(s, d, nd) == IF d < nd THEN << s, d + 1 >> ELSE << s + 1, 1 >>

\* main: TRUE when the loops go on after a write that returned ok.
DnsContinues(ok) == TRUE

DnsLoadApiConfig ==
    /\ script = "dns" /\ pc = "start"
    /\ \E cfg \in ApiConfigStates :
         IF DnsLoadApiConfigOk(cfg)
         THEN pc' = "read_dns_servers" /\ exit_code' = exit_code
              /\ setup_error' = setup_error
         ELSE pc' = "exit" /\ exit_code' = 1
              /\ setup_error' = "credentials"
    /\ UNCHANGED << script, clock, dns_servers, domains, si, di, result, payload,
                    success_count, fail_count, template_made, summary, probes,
                    writes, probe_log, last_resp, auth_failed,
                    open_conns, in_flight >>

DnsReadServers ==
    /\ script = "dns" /\ pc = "read_dns_servers"
    /\ \E file \in RegistryFiles(ServerLines, MaxServers) :
         /\ dns_servers' = ReadDnsServers(file)
         /\ template_made' = (file.state = "missing")
         /\ setup_error' = IF file.state = "ok" THEN setup_error ELSE "resolvers"
    /\ IF dns_servers' = << >>
       THEN pc' = "exit" /\ exit_code' = 0
       ELSE pc' = "read_domains" /\ exit_code' = exit_code
    /\ UNCHANGED << script, clock, domains, si, di, result, payload,
                    success_count, fail_count, summary, probes, writes,
                    probe_log, last_resp, auth_failed,
                    open_conns, in_flight >>

DnsReadDomains ==
    /\ script = "dns" /\ pc = "read_domains"
    /\ \E file \in RegistryFiles(DomainLines, MaxDomains) :
         /\ domains' = ReadDomains(file)
         /\ setup_error' = IF file.state = "ok" THEN setup_error ELSE "domains"
    /\ IF domains' = << >>
       THEN pc' = "exit" /\ exit_code' = 0
       ELSE pc' = "loop" /\ exit_code' = exit_code
    /\ UNCHANGED << script, clock, dns_servers, si, di, result, payload,
                    success_count, fail_count, template_made, summary, probes,
                    writes, probe_log, last_resp, auth_failed,
                    open_conns, in_flight >>

\* resolve_dns up to the call of resolver.resolve
ResolveDnsStart ==
    /\ script = "dns" /\ pc = "loop" /\ si <= Len(dns_servers)
    /\ result' = DnsInitResult(clock)
    /\ probes' = Bump(probes, << si, di >>)
    /\ probe_log' = [started |-> clock, completed |-> None, outcome |-> "pending"]
    /\ last_resp' = NoResponse
    /\ in_flight' = in_flight \cup {ProbeOf(<< si, di >>)}
    /\ pc' = "resolving"
    /\ UNCHANGED << script, exit_code, clock, dns_servers, domains, si, di,
                    payload, success_count, fail_count, template_made, summary,
                    writes, auth_failed, setup_error,
                    open_conns >>

\* Variant: a query that timed out is issued again, up to two more times.
ResolveDnsReturn_Retries ==
    /\ script = "dns" /\ pc = "resolving"
    /\ in_flight' = in_flight \ {ProbeOf(<< si, di >>)}
    /\ \E outcome \in DnsOutcomes, ip \in Addresses, dur \in 0..1 :
         /\ clock + dur <= MaxClock
         /\ clock' = clock + dur
         /\ probe_log' = [probe_log EXCEPT !.completed = Some(clock'),
                                           !.outcome = outcome]
         /\ result' = ResolveDnsResult(result, outcome, ip, dur)
         /\ pc' = IF outcome = "timeout" /\ Count(probes, << si, di >>) < 3
                  THEN "loop" ELSE "resolved"
    /\ UNCHANGED << script, exit_code, dns_servers, domains, si, di, payload,
                    success_count, fail_count, template_made, summary, probes,
                    writes, last_resp, auth_failed, setup_error,
                    open_conns >>

\* resolve_dns from the return of resolver.resolve to its own return
ResolveDnsReturn ==
    /\ script = "dns" /\ pc = "resolving"
    /\ in_flight' = in_flight \ {ProbeOf(<< si, di >>)}
    /\ \E outcome \in DnsOutcomes, ip \in Addresses, dur \in 0..1 :
         /\ clock + dur <= MaxClock
         /\ clock' = clock + dur
         /\ probe_log' = [probe_log EXCEPT !.completed = Some(clock'),
                                           !.outcome = outcome]
         /\ IF DnsCaught(outcome)
            THEN /\ result' = ResolveDnsResult(result, outcome, ip, dur)
                 /\ pc' = "resolved" /\ exit_code' = exit_code
            ELSE /\ result' = result
                 /\ pc' = "exit" /\ exit_code' = 1
    /\ UNCHANGED << script, dns_servers, domains, si, di, payload,
                    success_count, fail_count, template_made, summary, probes,
                    writes, last_resp, auth_failed, setup_error,
                    open_conns >>

\* Variant: the request is handed to a background sender and main goes on
\* with the next work item without waiting for the answer.
UpdateDnsStart_DoesNotWait ==
    /\ script = "dns" /\ pc = "resolved"
    /\ in_flight' = in_flight \cup {WriteOf(<< si, di >>)}
    /\ writes' = Bump(writes, << si, di >>)
    /\ success_count' = success_count + 1
    /\ si' = IF di < Len(domains) THEN si ELSE si + 1
    /\ di' = IF di < Len(domains) THEN di + 1 ELSE 1
    /\ result' = None /\ probe_log' = None
    /\ pc' = "loop"
    /\ UNCHANGED << script, exit_code, clock, dns_servers, domains, payload,
                    fail_count, template_made, summary, probes, last_resp,
                    auth_failed, setup_error, open_conns >>

\* update_dns_lookup_via_api up to the call of requests.post
UpdateDnsStart ==
    /\ script = "dns" /\ pc = "resolved"
    /\ payload' = DnsPayload(domains[di], dns_servers[si], result)
    /\ writes' = Bump(writes, << si, di >>)
    /\ in_flight' = in_flight \cup {WriteOf(<< si, di >>)}
    /\ pc' = "posting"
    /\ UNCHANGED << script, exit_code, clock, dns_servers, domains, si, di,
                    result, success_count, fail_count, template_made, summary,
                    probes, probe_log, last_resp, auth_failed, setup_error,
                    open_conns >>

\* update_dns_lookup_via_api from the return of requests.post, and the
\* rest of the loop body of main
UpdateDnsReturn ==
    /\ script = "dns" /\ pc = "posting"
    /\ in_flight' = in_flight \ {WriteOf(<< si, di >>)}
    /\ \E resp \in ApiResponses, dur \in 0..1 :
         /\ clock + dur <= MaxClock
         /\ clock' = clock + dur
         /\ last_resp' = resp
         /\ auth_failed' = (auth_failed \/ IsAuthFailure(resp))
         /\ IF ~UpdateDnsCaught(resp)
            THEN /\ pc' = "exit" /\ exit_code' = 1
                 /\ UNCHANGED << si, di, success_count, fail_count >>
            ELSE LET ok == UpdateDnsReturns(resp)
                     next == DnsNextItem(si, di, Len(domains))
                 IN  /\ success_count' = IF ok THEN success_count + 1 ELSE success_count
                     /\ fail_count' = IF ok THEN fail_count ELSE fail_count + 1
                     /\ IF DnsContinues(ok)
                        THEN /\ si' = next[1] /\ di' = next[2]
                             /\ pc' = "loop" /\ exit_code' = exit_code
                        ELSE /\ si' = si /\ di' = di
                             /\ pc' = "exit" /\ exit_code' = 1
    /\ payload' = None /\ result' = None /\ probe_log' = None
    /\ UNCHANGED << script, dns_servers, domains, template_made, summary,
                    probes, writes, setup_error,
                    open_conns >>

\* main: the summary after the loops, and the return
DnsSummary ==
    /\ script = "dns" /\ pc = "loop" /\ si > Len(dns_servers)
    /\ summary' = Some([updated |-> success_count, failed |-> fail_count])
    /\ pc' = "exit" /\ exit_code' = 0
    /\ UNCHANGED << script, clock, dns_servers, domains, si, di, result, payload,
                    success_count, fail_count, template_made, probes, writes,
                    probe_log, last_resp, auth_failed, setup_error,
                    open_conns, in_flight >>

----------------------------------------------------------------------------
(* sslChecker.py *)

SslLoadApiConfigOk(cfg) == cfg = "ok"

\* Records of 'ssl_verifications' in the API's answer: with a port, without
\* one, and with an empty domain.
ApiRecords == { [domain |-> "example.com", port |-> 443],
                [domain |-> "example.com"],
                [domain |-> ""] }

\* fetch_domains_from_api: TRUE when it returns a list; otherwise it raises,
\* and main prints the error and calls sys.exit(1).
FetchDomainsOk(resp) ==
    /\ resp.kind = "http"
    /\ ~RaisesForStatus(resp)
    /\ resp.body = "ok"

\* if domain_info['domain']
HasDomain(record) == record.domain # ""

\* fetch_domains_from_api: the list it returns.
FetchedDomains(records) ==
    LET kept == SelectSeq(records, HasDomain)
    IN  [k \in 1..Len(kept) |->
            [domain |-> kept[k].domain, port |-> Get(kept[k], "port", DefaultPort)]]

\* How the connection and the handshake end.
SslOutcomes == {"cert", "empty_cert", "timeout", "gaierror", "ssl_error",
                "refused", "unexpected"}

\* How socket.create_connection ends, and how the handshake of
\* context.wrap_socket and the body of the with block end.
ConnectOutcomes == {"connected", "timeout", "gaierror", "refused", "unexpected"}
HandshakeOutcomes == {"cert", "empty_cert", "timeout", "ssl_error", "unexpected"}

\* Variant: the socket is closed only when the with block was entered.
ConnsAfterHandshake_LeaksOnError(open, outcome) ==
    IF outcome \in {"cert", "empty_cert"} THEN open - 1 ELSE open

\* The connections left open after `with context.wrap_socket(sock, ...)`:
\* wrap_socket takes the socket over and closes it when the handshake
\* raises; the with block closes it on leaving, by return or by exception.
ConnsAfterHandshake(open, outcome) == open - 1

\* The issuer of a certificate, as the names it carries.
Issuers == { [organizationName |-> "Example CA", commonName |-> "CA 1"],
             [commonName |-> "CA 1"],
             [x \in {} |-> ""] }

\* The certificates getpeercert() answers.
NotBeforeTimes == 0..DayLen
NotAfterTimes == 0..(MaxClock + DayLen)
Certs == [notBefore : NotBeforeTimes, notAfter : NotAfterTimes, issuer : Issuers]

NoCert == [notBefore |-> 0, notAfter |-> 0, issuer |-> [x \in {} |-> ""]]

\* check_ssl_certificate: the dict built before the try block.
SslInitResult(now) ==
    [valid |-> Some("no"), days_until_expires |-> None, valid_from |-> None,
     valid_to |-> None, issuer |-> None, lastChecked |-> Some(now)]

\* check_ssl_certificate: the except clauses.
SslErrorMessage(outcome) ==
    CASE outcome = "timeout" -> "Connection timeout after 10 seconds"
      [] outcome = "gaierror" -> "DNS resolution failed"
      [] outcome = "ssl_error" -> "SSL error"
      [] outcome = "refused" -> "Connection refused"
      [] OTHER -> "Unexpected error"

\* check_ssl_certificate: TRUE when one of its except clauses catches the
\* outcome's exception (the last clause is `except Exception`).
SslCaught(outcome) == TRUE

\* timedelta.days: whole days, rounded towards minus infinity
TimedeltaDays(delta) == delta \div DayLen

\* Variant: both comparisons strict.
IsValid_Strict(not_before, not_after, now) == now > not_before /\ now < not_after

\* is_valid = now >= not_before and now <= not_after
IsValid(not_before, not_after, now) == now >= not_before /\ now <= not_after

\* Variant: without the branch for an expired certificate.
DaysUntilExpires_NoClamp(not_after, now) == TimedeltaDays(not_after - now)

\* days_until_expires
DaysUntilExpires(not_after, now) ==
    IF now <= not_after THEN TimedeltaDays(not_after - now) ELSE 0

\* issuer_dict.get('organizationName', issuer_dict.get('commonName', 'Unknown'))
IssuerName(issuer) ==
    Get(issuer, "organizationName", Get(issuer, "commonName", "Unknown"))

\* check_ssl_certificate: the dict it returns, given the dict r built before
\* the try block, the outcome of the connection, the certificate answered
\* and the clock read after the handshake.
CheckSslResult(r, outcome, cert, now) ==
    CASE outcome = "cert" ->
           [r EXCEPT
              !.valid = Some(IF IsValid(cert.notBefore, cert.notAfter, now)
                             THEN "yes" ELSE "no"),
              !.days_until_expires = Some(DaysUntilExpires(cert.notAfter, now)),
              !.valid_from = Some(cert.notBefore),
              !.valid_to = Some(cert.notAfter),
              !.issuer = Some(IssuerName(cert.issuer))]
      [] outcome = "empty_cert" -> r
      [] OTHER -> SetKey(r, "error", Some(SslErrorMessage(outcome)))

\* update_ssl_verification_via_api: the JSON body posted.
SslPayload(domain, port, r) ==
    LET base == [domain |-> Some(domain),
                 port |-> Some(port),
                 valid |-> Get(r, "valid", Some("no")),
                 days_until_expires |-> Get(r, "days_until_expires", None),
                 valid_from |-> Get(r, "valid_from", None),
                 valid_to |-> Get(r, "valid_to", None),
                 issuer |-> Get(r, "issuer", None),
                 lastChecked |-> Get(r, "lastChecked", None)]
        full == IF "error" \in DOMAIN r
                THEN SetKey(base, "error_message", r["error"]) ELSE base
    IN  RemoveNone(full)

\* update_ssl_verification_via_api: TRUE when one of its except clauses
\* catches what the request raised (the last clause is `except Exception`).
UpdateSslCaught(resp) == TRUE

\* update_ssl_verification_via_api: the value it returns.
UpdateSslReturns(resp) ==
    /\ resp.kind = "http"
    /\ ~RaisesForStatus(resp)
    /\ resp.body = "ok"

\* main: the index of the target after d in the for loop.
SslNextItem(d) == d + 1

\* main: TRUE when the loop goes on after a write that returned ok.
SslContinues(ok) == TRUE

SslLoadApiConfig ==
    /\ script = "ssl" /\ pc = "start"
    /\ \E cfg \in ApiConfigStates :
         IF SslLoadApiConfigOk(cfg)
         THEN pc' = "fetch_domains" /\ exit_code' = exit_code
              /\ setup_error' = setup_error
         ELSE pc' = "exit" /\ exit_code' = 1
              /\ setup_error' = "credentials"
    /\ UNCHANGED << script, clock, dns_servers, domains, si, di, result, payload,
                    success_count, fail_count, template_made, summary, probes,
                    writes, probe_log, last_resp, auth_failed,
                    open_conns, in_flight >>

\* main: fetch_domains_from_api and the checks after it
SslFetchDomains ==
    /\ script = "ssl" /\ pc = "fetch_domains"
    /\ \E resp \in ApiResponses, records \in SeqUpTo(ApiRecords, MaxTargets) :
         IF FetchDomainsOk(resp)
         THEN /\ domains' = FetchedDomains(records)
              /\ setup_error' = setup_error
              /\ IF domains' = << >>
                 THEN pc' = "exit" /\ exit_code' = 0
                 ELSE pc' = "loop" /\ exit_code' = exit_code
         ELSE /\ domains' = domains
              /\ setup_error' = "fetch"
              /\ pc' = "exit" /\ exit_code' = 1
    /\ UNCHANGED << script, clock, dns_servers, si, di, result, payload,
                    success_count, fail_count, template_made, summary, probes,
                    writes, probe_log, last_resp, auth_failed,
                    open_conns, in_flight >>

\* check_ssl_certificate up to the call of socket.create_connection
CheckSslStart ==
    /\ script = "ssl" /\ pc = "loop" /\ di <= Len(domains)
    /\ result' = SslInitResult(clock)
    /\ probes' = Bump(probes, << di >>)
    /\ probe_log' = [started |-> clock, completed |-> None, outcome |-> "pending",
                     cert |-> NoCert, connects |-> 0, opened |-> 0]
    /\ last_resp' = NoResponse
    /\ in_flight' = in_flight \cup {ProbeOf(<< di >>)}
    /\ pc' = "checking"
    /\ UNCHANGED << script, exit_code, clock, dns_servers, domains, si, di,
                    payload, success_count, fail_count, template_made, summary,
                    writes, auth_failed, setup_error,
                    open_conns >>

\* check_ssl_certificate: the return of socket.create_connection; when it
\* raised, the rest of the function up to its return
CheckSslConnect ==
    /\ script = "ssl" /\ pc = "checking"
    /\ \E outcome \in ConnectOutcomes, dur \in 0..1 :
         /\ clock + dur <= MaxClock
         /\ clock' = clock + dur
         /\ IF outcome = "connected"
            THEN /\ open_conns' = open_conns + 1
                 /\ in_flight' = in_flight
                 /\ probe_log' = [probe_log EXCEPT !.connects = @ + 1,
                                                   !.opened = @ + 1]
                 /\ result' = result
                 /\ pc' = "handshaking" /\ exit_code' = exit_code
            ELSE /\ open_conns' = open_conns
                 /\ in_flight' = in_flight \ {ProbeOf(<< di >>)}
                 /\ probe_log' = [probe_log EXCEPT !.connects = @ + 1,
                                                   !.completed = Some(clock'),
                                                   !.outcome = outcome]
                 /\ IF SslCaught(outcome)
                    THEN /\ result' = CheckSslResult(result, outcome, NoCert, clock')
                         /\ pc' = "checked" /\ exit_code' = exit_code
                    ELSE /\ result' = result
                         /\ pc' = "exit" /\ exit_code' = 1
    /\ UNCHANGED << script, dns_servers, domains, si, di, payload,
                    success_count, fail_count, template_made, summary, probes,
                    writes, last_resp, auth_failed, setup_error >>

\* check_ssl_certificate from the end of the handshake (context.wrap_socket)
\* to its return
CheckSslReturn ==
    /\ script = "ssl" /\ pc = "handshaking"
    /\ in_flight' = in_flight \ {ProbeOf(<< di >>)}
    /\ \E outcome \in HandshakeOutcomes, dur \in 0..1 :
         /\ clock + dur <= MaxClock
         /\ clock' = clock + dur
         /\ open_conns' = ConnsAfterHandshake(open_conns, outcome)
         /\ \E cert \in IF outcome = "cert" THEN Certs ELSE {NoCert} :
              /\ probe_log' = [probe_log EXCEPT !.completed = Some(clock'),
                                                !.outcome = outcome,
                                                !.cert = cert]
              /\ IF SslCaught(outcome)
                 THEN /\ result' = CheckSslResult(result, outcome, cert, clock')
                      /\ pc' = "checked" /\ exit_code' = exit_code
                 ELSE /\ result' = result
                      /\ pc' = "exit" /\ exit_code' = 1
    /\ UNCHANGED << script, dns_servers, domains, si, di, payload,
                    success_count, fail_count, template_made, summary, probes,
                    writes, last_resp, auth_failed, setup_error >>

\* update_ssl_verification_via_api up to the call of requests.post
UpdateSslStart ==
    /\ script = "ssl" /\ pc = "checked"
    /\ payload' = SslPayload(domains[di].domain, domains[di].port, result)
    /\ writes' = Bump(writes, << di >>)
    /\ in_flight' = in_flight \cup {WriteOf(<< di >>)}
    /\ pc' = "posting"
    /\ UNCHANGED << script, exit_code, clock, dns_servers, domains, si, di,
                    result, success_count, fail_count, template_made, summary,
                    probes, probe_log, last_resp, auth_failed, setup_error,
                    open_conns >>

\* update_ssl_verification_via_api from the return of requests.post, and
\* the rest of the loop body of main
UpdateSslReturn ==
    /\ script = "ssl" /\ pc = "posting"
    /\ in_flight' = in_flight \ {WriteOf(<< di >>)}
    /\ \E resp \in ApiResponses, dur \in 0..1 :
         /\ clock + dur <= MaxClock
         /\ clock' = clock + dur
         /\ last_resp' = resp
         /\ auth_failed' = (auth_failed \/ IsAuthFailure(resp))
         /\ IF ~UpdateSslCaught(resp)
            THEN /\ pc' = "exit" /\ exit_code' = 1
                 /\ UNCHANGED << di, success_count, fail_count >>
            ELSE LET ok == UpdateSslReturns(resp)
                 IN  /\ success_count' = IF ok THEN success_count + 1 ELSE success_count
                     /\ fail_count' = IF ok THEN fail_count ELSE fail_count + 1
                     /\ IF SslContinues(ok)
                        THEN /\ di' = SslNextItem(di)
                             /\ pc' = "loop" /\ exit_code' = exit_code
                        ELSE /\ di' = di
                             /\ pc' = "exit" /\ exit_code' = 1
    /\ payload' = None /\ result' = None /\ probe_log' = None
    /\ UNCHANGED << script, dns_servers, domains, si, template_made, summary,
                    probes, writes, setup_error,
                    open_conns >>

\* main: the summary after the loop, and the return
SslSummary ==
    /\ script = "ssl" /\ pc = "loop" /\ di > Len(domains)
    /\ summary' = Some([updated |-> success_count, failed |-> fail_count])
    /\ pc' = "exit" /\ exit_code' = 0
    /\ UNCHANGED << script, clock, dns_servers, domains, si, di, result, payload,
                    success_count, fail_count, template_made, probes, writes,
                    probe_log, last_resp, auth_failed, setup_error,
                    open_conns, in_flight >>

----------------------------------------------------------------------------

Init ==
    /\ script \in {"dns", "ssl"}
    /\ pc = "start"
    /\ exit_code = 0
    /\ clock = 0
    /\ dns_servers = << >>
    /\ domains = << >>
    /\ si = 1
    /\ di = 1
    /\ result = None
    /\ payload = None
    /\ success_count = 0
    /\ fail_count = 0
    /\ template_made = FALSE
    /\ summary = None
    /\ probes = << >>
    /\ writes = << >>
    /\ probe_log = None
    /\ last_resp = NoResponse
    /\ auth_failed = FALSE
    /\ setup_error = "none"
    /\ open_conns = 0
    /\ in_flight = {}

Next ==
    \/ DnsLoadApiConfig
    \/ DnsReadServers
    \/ DnsReadDomains
    \/ ResolveDnsStart
    \/ ResolveDnsReturn
    \/ UpdateDnsStart
    \/ UpdateDnsReturn
    \/ DnsSummary
    \/ SslLoadApiConfig
    \/ SslFetchDomains
    \/ CheckSslStart
    \/ CheckSslConnect
    \/ CheckSslReturn
    \/ UpdateSslStart
    \/ UpdateSslReturn
    \/ SslSummary

Spec == Init /\ [][Next]_vars

\* The scripts are sequential and every network call carries a timeout (5 s
\* for a DNS query, 10 s for a connection, 30 s for an API request), so a
\* step that can be taken is eventually taken.
FairSpec == Spec /\ WF_vars(Next)

----------------------------------------------------------------------------
(* Properties *)

\* The work item of the current loop body, and every work item of the run.
Item == IF script = "dns" THEN << si, di >> ELSE << di >>

AllItems ==
    IF script = "dns"
    THEN (1..Len(dns_servers)) \X (1..Len(domains))
    ELSE { << d >> : d \in 1..Len(domains) }

WorkCount ==
    IF script = "dns" THEN Len(dns_servers) * Len(domains) ELSE Len(domains)

\* A probe has returned its dict and the dict is still in use.
Probed == pc \in {"resolved", "checked", "posting"}

\* The outcomes in which the probe hit an error.
ProbeFailed ==
    /\ Probed
    /\ probe_log.outcome \notin {"answer", "cert", "empty_cert"}

Max(a, b) == IF a >= b THEN a ELSE b

\* C1: every work item (each (resolver, domain) pair of a DNS run, each
\* target of a TLS run) is probed exactly once and its result is written to
\* the API exactly once, whatever the outcomes; when the summary is printed
\* success_count + fail_count is the number of work items (R * D, or N).
C1_OneResultPerWorkItem ==
    /\ DOMAIN probes \subseteq AllItems
    /\ DOMAIN writes \subseteq DOMAIN probes
    /\ \A item \in DOMAIN probes : probes[item] = 1
    /\ \A item \in DOMAIN writes : writes[item] = 1
    /\ summary # None =>
         /\ DOMAIN probes = AllItems
         /\ DOMAIN writes = AllItems
         /\ success_count + fail_count = WorkCount
         /\ Cardinality(AllItems) = WorkCount

C1_Witness ==
    /\ script = "dns" /\ summary # None
    /\ Len(dns_servers) = 2 /\ Len(domains) = 2
    /\ success_count = 1 /\ fail_count = 3

\* C2: once the API has answered a write with 401 or 403, no further write
\* is attempted (the run is aborted).
C2_NoWriteAfterAuthFailure == ~(auth_failed /\ pc = "posting")

\* C3 (as claimed): a DNS work item whose query timed out has been probed
\* 3 times (max_retries = 2) when its Timeout failure is handed on.
C3_TimeoutProbedThreeTimes ==
    (script = "dns" /\ Probed /\ probe_log.outcome = "timeout")
        => Count(probes, Item) = 2 + 1

\* C3 (amended): a DNS query that times out is not retried: the work item
\* has been probed exactly once when its result, a failure carrying the
\* timeout error and no success field, is handed on; the result is written
\* at most once.
C3_TimeoutProbedOnce ==
    (script = "dns" /\ Probed /\ probe_log.outcome = "timeout")
        => /\ Count(probes, Item) = 1
           /\ result.error = Some("DNS query timeout after 5 seconds")
           /\ result.resolved_ip = None /\ result.resolve_time_ms = None
           /\ Count(writes, Item) <= 1

C3_Witness ==
    /\ script = "dns" /\ pc = "posting" /\ probe_log.outcome = "timeout"
    /\ Count(probes, Item) = 1 /\ Count(writes, Item) = 1

\* The run printed its summary and returned from main.
Completed ==
    /\ pc = "exit" /\ exit_code = 0 /\ summary # None
    /\ DOMAIN probes = AllItems

\* C4: a probe that hits an error yields a dict carrying the error and the
\* run goes on; once a probe is under way the run always reaches its
\* summary, with every work item probed, and ends with exit code 0.
C4_FailedProbeNeverAborts ==
    /\ [](ProbeFailed => ("error" \in DOMAIN result /\ result["error"] # None))
    /\ [](pc \in {"resolving", "checking", "handshaking"} => exit_code = 0)
    /\ (pc \in {"resolving", "checking", "handshaking"}) ~> Completed

C4_Witness ==
    /\ ProbeFailed /\ probe_log.outcome = "unexpected"
    /\ Item \in {<< 1, 1 >>, << 1 >>} /\ Len(domains) = 2

\* C5: after any setup error the run is over with exit code 1, and no
\* probe and no write has been made.
C5_SetupErrorsAreFatal ==
    setup_error # "none"
        => /\ pc = "exit" /\ exit_code = 1
           /\ probes = << >> /\ writes = << >>

\* The failures of a write that the claim C6 is about.
NonFatalWriteFailure(resp) ==
    \/ resp.kind \in {"timeout", "connection_error"}
    \/ resp.kind = "http" /\ resp.code >= 500
    \/ resp.kind = "http" /\ resp.code = 200 /\ resp.body = "error"

\* C6: a write that fails with a request timeout, a connection error, an
\* HTTP 5xx or a body whose status is not "ok" adds one to fail_count and
\* the loop goes on with the next work item; the summary reports fail_count
\* and by then every work item has been written.
C6_WriteFailureCountedRunGoesOn ==
    /\ [][(pc = "posting" /\ pc' # "posting" /\ NonFatalWriteFailure(last_resp'))
            => /\ fail_count' = fail_count + 1
               /\ success_count' = success_count
               /\ pc' = "loop"
               /\ Item' # Item]_vars
    /\ [](summary # None =>
            /\ summary[1].failed = fail_count
            /\ \A item \in AllItems : Count(writes, item) = 1)

C6_Witness ==
    /\ pc = "loop" /\ NonFatalWriteFailure(last_resp)
    /\ Item \in {<< 1, 2 >>, << 2 >>} /\ Len(domains) = 2
    /\ fail_count = 1 /\ success_count = 0

\* The success fields of a probe's dict.
SuccessFields ==
    IF script = "dns" THEN {"resolved_ip", "resolve_time_ms"}
    ELSE {"days_until_expires", "valid_from", "valid_to", "issuer"}

HasError(r) == "error" \in DOMAIN r /\ r["error"] # None

\* C7: the dict a probe returns has either every success field set and no
\* error, or an error and every success field None.
C7_ExactlyOneFieldGroup ==
    Probed =>
        \/ (\A f \in SuccessFields : result[f] # None) /\ ~HasError(result)
        \/ (\A f \in SuccessFields : result[f] = None) /\ HasError(result)

\* The certificate was answered and read.
CertRead == script = "ssl" /\ Probed /\ probe_log.outcome = "cert"

\* C8: days_until_expires is max(0, floor((not_after - now) / one day)):
\* 0 for a certificate whose not_after is past, never negative.
C8_DaysUntilExpiryClamped ==
    CertRead =>
        LET now == probe_log.completed[1]
            not_after == probe_log.cert.notAfter
            days == result.days_until_expires[1]
        IN  /\ days = Max(0, (not_after - now) \div DayLen)
            /\ days >= 0
            /\ not_after < now => days = 0

C8_Witness ==
    /\ CertRead
    /\ probe_log.cert.notAfter < probe_log.completed[1]
    /\ result.days_until_expires = Some(0)

\* C9: the dict says valid 'yes' exactly when a certificate was read and
\* not_before <= now <= not_after; a dict saying 'yes' carries no error.
C9_ValidIffWithinPeriod ==
    (script = "ssl" /\ Probed) =>
        LET now == probe_log.completed[1]
            cert == probe_log.cert
        IN  /\ result.valid = Some("yes")
                <=> /\ probe_log.outcome = "cert"
                    /\ cert.notBefore <= now /\ now <= cert.notAfter
            /\ result.valid \in {Some("yes"), Some("no")}
            /\ result.valid = Some("yes") => "error" \notin DOMAIN result

C9_Witness ==
    /\ CertRead /\ result.valid = Some("yes")
    /\ probe_log.cert.notAfter = probe_log.completed[1]

\* The timestamp of the probe's dict.
Timestamp(r) == IF script = "dns" THEN r.timestamp ELSE r.lastChecked

\* C10 (as claimed): the timestamp of a probe's dict is the time at which
\* the probe's network operation ended.
C10_TimestampIsCompletionTime ==
    Probed => Timestamp(result) = probe_log.completed

\* C10 (amended): the timestamp of a probe's dict is the time at which the
\* probe was started: it is taken when the dict is built, before the network
\* operation, and so is never later than the time the operation ended.
C10_TimestampIsStartTime ==
    Probed =>
        /\ Timestamp(result) = Some(probe_log.started)
        /\ Timestamp(result)[1] <= probe_log.completed[1]

C10_Witness ==
    /\ Probed /\ script = "dns"
    /\ Timestamp(result)[1] < probe_log.completed[1]

\* The key fields of a request body.
KeyFields == IF script = "dns" THEN {"domain", "dns_server"} ELSE {"domain", "port"}

\* C11: the body of every request posted to the API has no None value; its
\* key fields are always there; a success field is there exactly when the
\* probe's dict has a value for it; error_message is there, with the dict's
\* error, exactly when the dict carries an error (a failed probe), and is
\* left out for a dict without one (a successful probe).
C11_PayloadHasNoNullField ==
    pc = "posting" =>
        /\ \A k \in DOMAIN payload : payload[k] # None
        /\ KeyFields \subseteq DOMAIN payload
        /\ \A f \in SuccessFields : f \in DOMAIN payload <=> result[f] # None
        /\ HasError(result) =>
              /\ "error_message" \in DOMAIN payload
              /\ payload["error_message"] = result["error"]
              /\ \A f \in SuccessFields : f \notin DOMAIN payload
        /\ ~HasError(result) => "error_message" \notin DOMAIN payload

C11_Witness ==
    /\ pc = "posting" /\ script = "dns" /\ HasError(result)
    /\ DOMAIN payload = {"domain", "dns_server", "lastChecked", "error_message"}

\* check_ssl_certificate is running.
InCheckSsl == script = "ssl" /\ pc \in {"checking", "handshaking"}

\* C12: an invocation of check_ssl_certificate calls create_connection at
\* most once (no retry) and so opens at most one connection; no connection
\* is open once it has returned, whatever the outcome; a connection is open
\* only between the connect and the end of the handshake or the with block.
C12_OneConnectionOpenedAndClosed ==
    /\ open_conns \in {0, 1}
    /\ open_conns = 1 <=> (script = "ssl" /\ pc = "handshaking")
    /\ (script = "ssl" /\ (InCheckSsl \/ Probed)) =>
          /\ probe_log.connects <= 1
          /\ probe_log.opened <= probe_log.connects
    /\ (script = "ssl" /\ Probed) => open_conns = 0

C12_Witness ==
    /\ script = "ssl" /\ pc = "checked" /\ probe_log.outcome = "ssl_error"
    /\ probe_log.opened = 1 /\ open_conns = 0

\* The place of a work item in the order of the loops, from 1.
ItemIndex(item) ==
    IF script = "dns" THEN (item[1] - 1) * Len(domains) + item[2] ELSE item[1]

\* The writes that have returned: each adds one to one of the two counters.
WritesReturned == success_count + fail_count

\* C13: at most one probe or API write is in flight; the write of a work
\* item is in flight only after that item's probe has returned its result;
\* the probe of a work item is in flight only after the writes of all
\* earlier work items have returned.
C13_OneRequestAtATime ==
    /\ Cardinality(in_flight) <= 1
    /\ \A r \in in_flight :
         /\ r.item = Item
         /\ r.op = "write" =>
               /\ ProbeOf(r.item) \notin in_flight
               /\ Count(probes, r.item) = 1
               /\ result # None /\ probe_log.completed # None
         /\ r.op = "probe" =>
               /\ r.item \notin DOMAIN writes
               /\ WritesReturned = ItemIndex(r.item) - 1
               /\ Cardinality(DOMAIN writes) = ItemIndex(r.item) - 1

C13_Witness ==
    /\ script = "dns" /\ Len(domains) = 2
    /\ in_flight = {ProbeOf(<< 2, 1 >>)}
    /\ WritesReturned = 2 /\ fail_count = 1

====
